---- MODULE Spec2Model ----
\* Model of pylon.Cloudant: the retrying request executor (Cloudant.request,
\* Cloudant.retry_config, Cloudant.create_database) and the streaming line
\* decoder (Cloudant.request_streamed).
\* Durations are in hundredths of a second (base_delay 0.1 s == 10).
EXTENDS Integers, Sequences, FiniteSets, TLC

\* ---------------------------------------------------------------------------
\* Constants of the program
DefaultMaxRetries == 5
DefaultBaseDelay == 10
JitterMax == 9
RateLimited == 429

\* Bounds of the model
MaxRetriesIn == 2

\* Inputs
\* 0 stands for a transport-level exception raised by requests (no status).
Transport == 0
Statuses == {Transport, 200, 401, 412, RateLimited, 500}
Urls == {"u1", "u2"}
Callers == {"request", "create_database"}
RetryInputs == (-1..MaxRetriesIn) \cup {DefaultMaxRetries}
DelayInputs == {-DefaultBaseDelay, 0, DefaultBaseDelay}

NoResp == -1
NoSleep == -1000

VARIABLES
  max_retries, base_delay,
  rq_pc, rq_caller, rq_url, rq_mr, rq_bd, rq_left, rq_delay,
  rq_calls, rq_n429, rq_last, rq_sleeps, rq_last_sleep, rq_out, cd_out,
  rc_pc, rc_bd,
  sd_feed, sd_pc, sd_pos, sd_out, sd_closes, sd_opened, sd_read, sd_created,
  ln_line, ln_res

exec_vars == <<max_retries, base_delay, rq_pc, rq_caller, rq_url, rq_mr, rq_bd,
               rq_left, rq_delay, rq_calls, rq_n429, rq_last, rq_sleeps,
               rq_last_sleep, rq_out, cd_out, rc_pc, rc_bd>>

sd_vars == <<sd_feed, sd_pc, sd_pos, sd_out, sd_closes, sd_opened, sd_read, sd_created>>

ln_vars == <<ln_line, ln_res>>

vars == <<exec_vars, sd_vars, ln_vars>>

\* parse_line's result before it has been applied
Pending == <<"pending">>

NoOut == [kind |-> "none", status |-> NoResp, limit |-> NoResp, url |-> "none"]
NoCd == [res |-> "none", created |-> FALSE, exc |-> "none", status |-> NoResp]

\* requests.Response.raise_for_status: raises HTTPError for 400 <= status < 600
RaisesForStatus(s) == 400 <= s /\ s < 600

\* a variant of the 429 test that backs off on every HTTP error
IsRateLimitedAll(s) == RaisesForStatus(s)

\* the 429 test of Cloudant.request's except clause
IsRateLimited(s) == s = RateLimited

\* Cloudant.create_database: maps the outcome of self.put (== self.request)
CreateDatabaseResult(out) ==
  IF out.kind = "ok"
    THEN [res |-> "body", created |-> TRUE, exc |-> "none", status |-> out.status]
  ELSE IF out.kind = "http_error" /\ out.status = 412
    THEN [res |-> "ok_true", created |-> FALSE, exc |-> "none", status |-> 412]
  ELSE [res |-> "raise", created |-> FALSE, exc |-> out.kind, status |-> out.status]

\* The end of one call of Cloudant.request (returned or raised), seen by its caller.
Finish(out) ==
  /\ rq_pc' = "done"
  /\ rq_out' = out
  /\ cd_out' = IF rq_caller = "create_database" THEN CreateDatabaseResult(out) ELSE NoCd

\* a request_streamed generator that has not been created yet, and no line
\* handed to parse_line
DecoderIdle ==
  /\ sd_feed = <<>>
  /\ sd_pc = "created"
  /\ sd_pos = 1
  /\ sd_out = <<>>
  /\ sd_closes = 0
  /\ sd_opened = FALSE
  /\ sd_read = 0
  /\ sd_created = 0
  /\ ln_line = <<>>
  /\ ln_res = Pending

ExecInit ==
  /\ max_retries = DefaultMaxRetries
  /\ base_delay = DefaultBaseDelay
  /\ rq_pc = "idle"
  /\ rq_caller = "request"
  /\ rq_url = "u1"
  /\ rq_mr = DefaultMaxRetries
  /\ rq_bd = DefaultBaseDelay
  /\ rq_left = 0
  /\ rq_delay = DefaultBaseDelay
  /\ rq_calls = 0
  /\ rq_n429 = 0
  /\ rq_last = NoResp
  /\ rq_sleeps = 0
  /\ rq_last_sleep = NoSleep
  /\ rq_out = NoOut
  /\ cd_out = NoCd
  /\ rc_pc = "idle"
  /\ rc_bd = DefaultBaseDelay

Init == ExecInit /\ DecoderIdle

\* Cloudant.retry_config, line 59: self.max_retries = max_retries. The two
\* stores are separate statements with no lock; a request in another thread
\* can run between them.
RetryConfigBegin(mr, bd) ==
  /\ rc_pc = "idle"
  /\ max_retries' = mr
  /\ rc_bd' = bd
  /\ rc_pc' = "mid"
  /\ UNCHANGED <<base_delay, rq_pc, rq_caller, rq_url, rq_mr, rq_bd, rq_left, rq_delay,
                 rq_calls, rq_n429, rq_last, rq_sleeps, rq_last_sleep, rq_out, cd_out>>
  /\ UNCHANGED <<sd_vars, ln_vars>>

\* Cloudant.retry_config, line 60: self.base_delay = base_delay (no validation)
RetryConfigEnd ==
  /\ rc_pc = "mid"
  /\ base_delay' = rc_bd
  /\ rc_pc' = "idle"
  /\ UNCHANGED <<max_retries, rc_bd, rq_pc, rq_caller, rq_url, rq_mr, rq_bd, rq_left, rq_delay,
                 rq_calls, rq_n429, rq_last, rq_sleeps, rq_last_sleep, rq_out, cd_out>>
  /\ UNCHANGED <<sd_vars, ln_vars>>

\* Entry of Cloudant.request, lines 107-108 (r = None; delay = self.base_delay),
\* called directly or through create_database's self.put.
StartRequest(caller, url) ==
  /\ rq_pc \in {"idle", "done"}
  /\ rq_pc' = "entry"
  /\ rq_caller' = caller
  /\ rq_url' = url
  /\ rq_bd' = base_delay
  /\ rq_delay' = base_delay
  /\ rq_calls' = 0
  /\ rq_n429' = 0
  /\ rq_last' = NoResp
  /\ rq_sleeps' = 0
  /\ rq_last_sleep' = NoSleep
  /\ rq_out' = NoOut
  /\ cd_out' = NoCd
  /\ UNCHANGED <<max_retries, base_delay, rq_mr, rq_left, rc_pc, rc_bd>>
  /\ UNCHANGED <<sd_vars, ln_vars>>

\* Cloudant.request, line 109: xrange(self.max_retries, 0, -1) is evaluated
\* once, after the read of base_delay.
EnterLoop ==
  /\ rq_pc = "entry"
  /\ rq_pc' = "loop"
  /\ rq_mr' = max_retries
  /\ rq_left' = IF max_retries > 0 THEN max_retries ELSE 0
  /\ UNCHANGED <<max_retries, base_delay, rq_caller, rq_url, rq_bd, rq_delay, rq_calls,
                 rq_n429, rq_last, rq_sleeps, rq_last_sleep, rq_out, cd_out, rc_pc, rc_bd>>
  /\ UNCHANGED <<sd_vars, ln_vars>>

\* One iteration of the for loop of Cloudant.request: the network call,
\* raise_for_status, and the except clause (429: delay += jitter, sleep(delay);
\* other: re-raise). time.sleep raises on a negative duration.
Attempt ==
  /\ rq_pc = "loop"
  /\ rq_left > 0
  /\ UNCHANGED <<sd_vars, ln_vars, rc_pc, rc_bd>>
  /\ \E s \in Statuses :
       /\ rq_calls' = rq_calls + 1
       /\ rq_last' = s
       /\ rq_n429' = IF s = RateLimited THEN rq_n429 + 1 ELSE rq_n429
       /\ UNCHANGED <<max_retries, base_delay, rq_caller, rq_url, rq_mr, rq_bd>>
       /\ IF s = Transport
            THEN /\ Finish([kind |-> "transport", status |-> s, limit |-> NoResp, url |-> rq_url])
                 /\ UNCHANGED <<rq_left, rq_delay, rq_sleeps, rq_last_sleep>>
          ELSE IF ~RaisesForStatus(s)
            THEN /\ Finish([kind |-> "ok", status |-> s, limit |-> NoResp, url |-> rq_url])
                 /\ UNCHANGED <<rq_left, rq_delay, rq_sleeps, rq_last_sleep>>
          ELSE IF IsRateLimited(s)
            THEN \E j \in 0..JitterMax :
                   LET d == rq_delay + j IN
                   /\ rq_delay' = d
                   /\ rq_left' = rq_left - 1
                   /\ IF d < 0
                        THEN /\ Finish([kind |-> "sleep_error", status |-> s, limit |-> NoResp, url |-> rq_url])
                             /\ UNCHANGED <<rq_sleeps, rq_last_sleep>>
                        ELSE /\ rq_sleeps' = rq_sleeps + 1
                             /\ rq_last_sleep' = d
                             /\ rq_pc' = "loop"
                             /\ UNCHANGED <<rq_out, cd_out>>
          ELSE /\ Finish([kind |-> "http_error", status |-> s, limit |-> NoResp, url |-> rq_url])
               /\ UNCHANGED <<rq_left, rq_delay, rq_sleeps, rq_last_sleep>>

\* After the loop of Cloudant.request: builds the 'max retries limit' message
\* from r.status_code and the current self.max_retries; r is None (an
\* AttributeError) when the loop ran zero times.
LoopExit ==
  /\ rq_pc = "loop"
  /\ rq_left = 0
  /\ IF rq_last = NoResp
       THEN Finish([kind |-> "attr_error", status |-> NoResp, limit |-> NoResp, url |-> rq_url])
       ELSE Finish([kind |-> "http_error", status |-> rq_last, limit |-> max_retries, url |-> rq_url])
  /\ UNCHANGED <<max_retries, base_delay, rq_caller, rq_url, rq_mr, rq_bd, rq_left,
                 rq_delay, rq_calls, rq_n429, rq_last, rq_sleeps, rq_last_sleep>>
  /\ UNCHANGED <<sd_vars, ln_vars, rc_pc, rc_bd>>

Next ==
  \/ \E mr \in RetryInputs, bd \in DelayInputs : RetryConfigBegin(mr, bd)
  \/ RetryConfigEnd
  \/ \E c \in Callers, u \in Urls : StartRequest(c, u)
  \/ EnterLoop
  \/ Attempt
  \/ LoopExit

Spec == Init /\ [][Next]_vars

\* ---------------------------------------------------------------------------
\* Cloudant.request_streamed and its parse_line
\* A physical line is a sequence of symbols: "{" "}" "," "[" "]" " " stand for
\* themselves, ":" for the colon, "s" for a JSON string literal ("id"), "#"
\* for a byte that is not UTF-8, and the line <<"!">> for a read error raised
\* by r.iter_lines().
\* A decoded JSON value is written as its canonical text: no whitespace, and
\* an object keeps only the last value of its repeated key "s", as a dict does.

\* Bounds of the model
MaxFeedLines == 3
MaxOpen429 == 1
MaxLineLen == 5

\* json.loads raised ValueError
Invalid == <<"invalid">>
\* parse_line returned ''
NoValue == <<"novalue">>

IOErrLine == <<"!">>

\* str.rstrip()
RECURSIVE RStrip(_)
RStrip(s) == IF Len(s) > 0 /\ s[Len(s)] = " " THEN RStrip(SubSeq(s, 1, Len(s) - 1)) ELSE s

\* json's WHITESPACE.match(s, i).end()
RECURSIVE SkipWs(_, _)
SkipWs(s, i) == IF i <= Len(s) /\ s[i] = " " THEN SkipWs(s, i + 1) ELSE i

ScanFail == [ok |-> FALSE, val |-> Invalid, nxt |-> 0]

\* json's scan_once (a value starting at i), JSONObject (members of an object
\* whose '{' and following whitespace end before j) and JSONArray (elements of
\* an array whose '[' and following whitespace end before j; acc holds the
\* canonical text of the elements already read)
RECURSIVE ScanValue(_, _), ScanMembers(_, _), ScanElements(_, _, _)
ScanValue(s, i) ==
  IF i > Len(s) THEN ScanFail
  ELSE IF s[i] = "s" THEN [ok |-> TRUE, val |-> <<"s">>, nxt |-> i + 1]
  ELSE IF s[i] = "{" THEN
    LET j == SkipWs(s, i + 1) IN
    IF j <= Len(s) /\ s[j] = "}" THEN [ok |-> TRUE, val |-> <<"{", "}">>, nxt |-> j + 1]
    ELSE ScanMembers(s, j)
  ELSE IF s[i] = "[" THEN
    LET j == SkipWs(s, i + 1) IN
    IF j <= Len(s) /\ s[j] = "]" THEN [ok |-> TRUE, val |-> <<"[", "]">>, nxt |-> j + 1]
    ELSE ScanElements(s, j, <<>>)
  ELSE ScanFail
ScanMembers(s, j) ==
  IF j <= Len(s) /\ s[j] = "s" THEN
    LET c == SkipWs(s, j + 1)
        v == ScanValue(s, SkipWs(s, c + 1)) IN
    IF c > Len(s) \/ s[c] # ":" THEN ScanFail
    ELSE IF ~v.ok THEN ScanFail
    ELSE LET e == SkipWs(s, v.nxt) IN
      IF e <= Len(s) /\ s[e] = "}"
        THEN [ok |-> TRUE, val |-> <<"{", "s", ":">> \o v.val \o <<"}">>, nxt |-> e + 1]
      ELSE IF e <= Len(s) /\ s[e] = "," THEN ScanMembers(s, SkipWs(s, e + 1))
      ELSE ScanFail
  ELSE ScanFail
ScanElements(s, j, acc) ==
  LET v == ScanValue(s, j) IN
  IF ~v.ok THEN ScanFail
  ELSE LET e == SkipWs(s, v.nxt) IN
    IF e <= Len(s) /\ s[e] = "]"
      THEN [ok |-> TRUE, val |-> <<"[">> \o acc \o v.val \o <<"]">>, nxt |-> e + 1]
    ELSE IF e <= Len(s) /\ s[e] = ","
      THEN ScanElements(s, SkipWs(s, e + 1), acc \o v.val \o <<",">>)
    ELSE ScanFail

\* json.loads: one value, surrounded only by whitespace
Loads(s) ==
  LET r == ScanValue(s, SkipWs(s, 1)) IN
  IF r.ok /\ SkipWs(s, r.nxt) = Len(s) + 1 THEN r.val ELSE Invalid

\* re.match(r"^(\{.+\}?\}),?$", decoded_line) succeeds
Matches(d) ==
  /\ Len(d) >= 3
  /\ d[1] = "{"
  /\ \/ d[Len(d)] = "}"
     \/ Len(d) >= 4 /\ d[Len(d)] = "," /\ d[Len(d) - 1] = "}"

\* m.group(1): the greedy match ends the group at the last '}'
Capture(d) == IF d[Len(d)] = "}" THEN d ELSE SubSeq(d, 1, Len(d) - 1)

\* line.rstrip().decode('utf-8') raises UnicodeDecodeError
DecodeFails(line) == \E i \in 1..Len(line) : line[i] = "#"

\* a variant of parse_line without the second json.loads(value + '}')
ParseLineNoRecover(line) ==
  LET d == RStrip(line) IN
  IF ~Matches(d) THEN NoValue
  ELSE IF Loads(Capture(d)) # Invalid THEN Loads(Capture(d)) ELSE NoValue

\* parse_line(valid, line) for a line that decodes
ParseLine(line) ==
  LET d == RStrip(line) IN
  IF ~Matches(d) THEN NoValue
  ELSE LET v == Capture(d) IN
    IF Loads(v) # Invalid THEN Loads(v)
    ELSE IF Loads(v \o <<"}">>) # Invalid THEN Loads(v \o <<"}">>)
    ELSE NoValue

\* lines a response body can deliver to request_streamed
FeedLines ==
  { <<>>, <<"[">>, <<"]">>, <<" ">>,
    <<"{", "s", ":", "s", "}", ",">>, <<"{", "s", ":", "s", "}">>, <<"{", "s", ":", "s", "}", " ">>,
    <<"{", "}">>, <<"{", " ", "}", ",">>, <<"{", "s", ":", "{", "s", ":", "s", "}">>,
    <<"{", "s", ":", "s">>, <<"{", "s", ":", "s", "}", "}">>, <<"{", "#", "}">>, IOErrLine,
    <<"{", "s", ":", "[", "s", "]", "}", ",">>, <<"{", "s", ":", "[", "]", "}">> }

Feeds == UNION {[1..n -> FeedLines] : n \in 0..MaxFeedLines}

\* closing(r).__exit__: r.close() when the with block is left
ExitWith(c) == c + 1

StreamInit ==
  /\ ExecInit
  /\ sd_feed \in Feeds
  /\ sd_pc = "created"
  /\ sd_pos = 1
  /\ sd_out = <<>>
  /\ sd_closes = 0
  /\ sd_opened = FALSE
  /\ sd_read = 0
  /\ sd_created = 0
  /\ ln_line = <<>>
  /\ ln_res = Pending

\* How the first next() leaves self.request(method, urlstr, stream=True, ...):
\* after k 429 responses, it returns a response ("ok"), raises HTTPError for
\* an error status or the last of the 429s ("status_error", a response was
\* made), raises from the transport ("transport", no response), or raises
\* from sleep after a 429 ("sleep_error"). Each response is a Response
\* created with stream=True; request closes none of them.
OpenOutcomes == {"ok", "status_error", "transport", "sleep_error"}

\* next() on the generator: the first one runs the self.request call inside
\* closing(...); only a returned response reaches the with block. Later ones
\* resume after the yield.
SdPull ==
  /\ sd_pc \in {"created", "suspended"}
  /\ IF sd_pc = "created"
       THEN \E k \in 0..MaxOpen429, fin \in OpenOutcomes :
              /\ fin = "sleep_error" => k >= 1
              /\ sd_created' = k + (IF fin \in {"ok", "status_error"} THEN 1 ELSE 0)
              /\ sd_opened' = (fin = "ok")
              /\ sd_pc' = IF fin = "ok" THEN "running" ELSE "raised"
       ELSE /\ sd_pc' = "running"
            /\ UNCHANGED <<sd_opened, sd_created>>
  /\ UNCHANGED <<sd_feed, sd_pos, sd_out, sd_closes, sd_read>>
  /\ UNCHANGED <<exec_vars, ln_vars>>

\* one turn of 'for line in r.iter_lines()': end of stream, a read error, an
\* empty line, a decode error, a skipped line, or a yielded value
SdReadLine ==
  /\ sd_pc = "running"
  /\ UNCHANGED <<sd_feed, sd_opened, sd_created>>
  /\ UNCHANGED <<exec_vars, ln_vars>>
  /\ IF sd_pos > Len(sd_feed)
       THEN /\ sd_pc' = "done"
            /\ sd_closes' = ExitWith(sd_closes)
            /\ UNCHANGED <<sd_pos, sd_out, sd_read>>
       ELSE LET L == sd_feed[sd_pos] IN
            /\ sd_pos' = sd_pos + 1
            /\ sd_read' = sd_read + 1
            /\ IF L = IOErrLine \/ (L # <<>> /\ DecodeFails(L))
                 THEN /\ sd_pc' = "raised"
                      /\ sd_closes' = ExitWith(sd_closes)
                      /\ UNCHANGED sd_out
               ELSE IF L = <<>> \/ ParseLine(L) = NoValue
                 THEN UNCHANGED <<sd_pc, sd_out, sd_closes>>
               ELSE /\ sd_out' = Append(sd_out, ParseLine(L))
                    /\ sd_pc' = "suspended"
                    /\ UNCHANGED sd_closes

\* the consumer drops the generator: a suspended generator gets GeneratorExit
\* at its yield, which leaves the with block; an unstarted one has no stream
SdAbandon ==
  /\ sd_pc \in {"created", "suspended"}
  /\ sd_pc' = "abandoned"
  /\ sd_closes' = IF sd_pc = "suspended" THEN ExitWith(sd_closes) ELSE sd_closes
  /\ UNCHANGED <<sd_feed, sd_pos, sd_out, sd_opened, sd_read, sd_created>>
  /\ UNCHANGED <<exec_vars, ln_vars>>

StreamNext == SdPull \/ SdReadLine \/ SdAbandon

StreamSpec == StreamInit /\ [][StreamNext]_vars

\* parse_line applied to one line: any text of at most MaxLineLen symbols,
\* possibly followed by the array separator ','
LineCores == UNION {[1..n -> {"{", "}", ",", ":", "s", " ", "[", "]"}] : n \in 0..MaxLineLen}

LineStrings == {c \o t : c \in LineCores, t \in {<<>>, <<",">>}}

LineInit ==
  /\ ExecInit
  /\ sd_feed = <<>>
  /\ sd_pc = "created"
  /\ sd_pos = 1
  /\ sd_out = <<>>
  /\ sd_closes = 0
  /\ sd_opened = FALSE
  /\ sd_read = 0
  /\ sd_created = 0
  /\ ln_line \in LineStrings
  /\ ln_res = Pending

ApplyParseLine ==
  /\ ln_res = Pending
  /\ ln_res' = ParseLine(ln_line)
  /\ UNCHANGED <<ln_line, exec_vars, sd_vars>>

LineNext == ApplyParseLine

LineSpec == LineInit /\ [][LineNext]_vars


\* ---------------------------------------------------------------------------
\* Properties of Cloudant.request, retry_config and create_database

\* C1: a request answered 429 on every attempt makes exactly max_retries + 1
\* network calls and then fails with an HTTPError of status 429 whose message
\* names the retry limit and the URL.
C1_AllRateLimitedFailsAfterMaxPlusOne ==
  (rq_pc = "done" /\ rq_n429 = rq_calls) =>
    /\ rq_calls = rq_mr + 1
    /\ rq_out.kind = "http_error"
    /\ rq_out.status = RateLimited
    /\ rq_out.limit = rq_mr
    /\ rq_out.url = rq_url

\* C2: with max_retries = 0 a request makes exactly one network call, and a
\* 429 on it fails at once with an HTTPError of status 429.
C2_ZeroRetriesOneAttempt ==
  (rq_pc = "done" /\ rq_mr = 0) =>
    /\ rq_calls = 1
    /\ (rq_last = RateLimited => rq_out.kind = "http_error" /\ rq_out.status = RateLimited)

\* C3: 429 on attempts 1..k (k < max_retries) then a success returns the
\* success after k + 1 calls, with no delay when k = 0; the delays taken are
\* non-decreasing.
C3_SuccessAfterKRateLimits ==
  /\ [](rq_pc = "done" /\ rq_calls >= 1 /\ rq_n429 = rq_calls - 1
        /\ rq_last # Transport /\ ~RaisesForStatus(rq_last) =>
          /\ rq_out.kind = "ok" /\ rq_out.status = rq_last
          /\ rq_sleeps = rq_calls - 1
          /\ (rq_calls = 1 => rq_last_sleep = NoSleep))
  /\ [](~(rq_pc = "done" /\ rq_calls >= 1 /\ rq_n429 = rq_calls /\ rq_calls < rq_mr))
  /\ [][rq_sleeps' = rq_sleeps + 1 /\ rq_sleeps >= 1 => rq_last_sleep' >= rq_last_sleep]_vars

\* C4: an attempt that ends in a transport exception or an HTTP error other
\* than 429 ends the request at once with that failure and its status,
\* without any delay.
C4_NonRateLimitFailureImmediate ==
  [][(rq_calls' = rq_calls + 1
      /\ (rq_last' = Transport \/ (RaisesForStatus(rq_last') /\ rq_last' # RateLimited))) =>
       /\ rq_pc' = "done"
       /\ rq_out'.status = rq_last'
       /\ rq_out'.kind = (IF rq_last' = Transport THEN "transport" ELSE "http_error")
       /\ rq_sleeps' = rq_sleeps
       /\ rq_last_sleep' = rq_last_sleep]_vars

\* witness of C4: a 500 after a 429 ended the request
C4_Witness ==
  rq_pc = "done" /\ rq_out.kind = "http_error" /\ rq_out.status = 500 /\ rq_calls = 2

\* C5: each delay between consecutive 429 retries is the previous delay plus
\* base_delay plus a jitter in 0..9 hundredths.
C5_DelayGrowsByBasePlusJitter ==
  [][rq_sleeps' = rq_sleeps + 1 /\ rq_sleeps >= 1 =>
       rq_last_sleep' - rq_last_sleep \in (rq_bd)..(rq_bd + JitterMax)]_vars

\* C6: create_database returns (body, True) on success, ({'ok': True}, False)
\* on 412, and raises HTTPError carrying the status for any other failure status.
C6_CreateDatabaseOutcome ==
  (rq_pc = "done" /\ rq_caller = "create_database" /\ rq_last # NoResp /\ rq_last # Transport) =>
    /\ (~RaisesForStatus(rq_last) => cd_out.res = "body" /\ cd_out.created)
    /\ (rq_last = 412 => cd_out.res = "ok_true" /\ ~cd_out.created)
    /\ (RaisesForStatus(rq_last) /\ rq_last # 412 =>
          cd_out.res = "raise" /\ cd_out.exc = "http_error" /\ cd_out.status = rq_last)

\* C10: retry_config rejects negative arguments, so the retry policy is never negative.
C10_RetryPolicyNonNegative == max_retries >= 0 /\ base_delay >= 0

\* ---------------------------------------------------------------------------
\* Properties of request_streamed and parse_line

\* the text of a line without trailing whitespace and without one trailing ','
LineBody(L) ==
  LET T == RStrip(L) IN
  IF Len(T) >= 1 /\ T[Len(T)] = "," THEN SubSeq(T, 1, Len(T) - 1) ELSE T

\* the line starts with '{' and ends with '}' or '},' (after trailing whitespace)
BraceShaped(L) ==
  LET T == RStrip(L) IN
  /\ Len(T) >= 1
  /\ T[1] = "{"
  /\ \/ T[Len(T)] = "}"
     \/ Len(T) >= 2 /\ T[Len(T)] = "," /\ T[Len(T) - 1] = "}"

\* the value C7 expects of one brace-shaped line: the JSON object of its text
\* without separator, or of that text with the envelope's '}' appended
ClaimedLineValue(L) ==
  IF BraceShaped(L)
    THEN IF Loads(LineBody(L)) # Invalid THEN Loads(LineBody(L))
         ELSE IF Loads(LineBody(L) \o <<"}">>) # Invalid THEN Loads(LineBody(L) \o <<"}">>)
         ELSE NoValue
    ELSE NoValue

\* the value C8's amendment gives a brace-shaped line longer than '{}': its
\* text without separator parsed, or else that text with '}' appended
AmendedLineValue(L) ==
  IF BraceShaped(L) /\ Len(LineBody(L)) >= 3
    THEN IF Loads(LineBody(L)) # Invalid THEN Loads(LineBody(L))
         ELSE IF Loads(LineBody(L) \o <<"}">>) # Invalid THEN Loads(LineBody(L) \o <<"}">>)
         ELSE NoValue
    ELSE NoValue

RECURSIVE ClaimedValues(_)
ClaimedValues(f) ==
  IF f = <<>> THEN <<>>
  ELSE (IF ClaimedLineValue(Head(f)) = NoValue THEN <<>> ELSE <<ClaimedLineValue(Head(f))>>)
       \o ClaimedValues(Tail(f))

\* the stream was read past a line that raises (read error or non-UTF-8 byte)
ReadFailingLine == \E i \in 1..(sd_pos - 1) : sd_feed[i] = IOErrLine \/ DecodeFails(sd_feed[i])

\* C7: request_streamed yields exactly the JSON objects of the lines that
\* start with '{' and end with '}' or '},' (the last data line recovered with
\* the envelope's '}'), in line order, without separator; '[' ']' and blank
\* lines yield nothing and do not end the sequence.
C7_StreamYieldsBraceLines ==
  /\ sd_pc = "done" => sd_out = ClaimedValues(sd_feed)
  /\ (sd_pc = "raised" /\ sd_opened) => ReadFailingLine

C9_StreamClosedOnce ==
  /\ [](sd_pc \in {"done", "raised", "abandoned"} => sd_closes = sd_created)
  /\ [][sd_pc = "abandoned" => sd_read' = sd_read]_vars

\* ---------------------------------------------------------------------------
\* Reconfiguration during a request, and the last delay

\* C11: a request keeps the max_retries and base_delay it read at call start,
\* even if retry_config runs while it is in flight: it makes at most that many
\* attempts, its first delay grows from that base_delay, and its rate-limit
\* error reports that max_retries.
C11_InFlightKeepsCapturedPolicy ==
  /\ rq_calls <= (IF rq_mr > 0 THEN rq_mr ELSE 0)
  /\ (rq_sleeps = 1 => rq_last_sleep \in rq_bd..(rq_bd + JitterMax))
  /\ ((rq_pc = "done" /\ rq_out.kind = "http_error" /\ rq_out.limit # NoResp) => rq_out.limit = rq_mr)

\* C12: a delay is taken after a 429 only when another attempt follows.
C12_SleepOnlyBeforeAnotherAttempt ==
  [][rq_sleeps' = rq_sleeps + 1 => rq_left' > 0]_vars

====
